---------------------------- MODULE Spec2Model ----------------------------
(***************************************************************************)
(* A model of MinedMap's region-to-tile batch driver (src/src/MinedMap.cpp) *)
(* main() scans <data>/region, validates each entry name by an sscanf /     *)
(* snprintf round trip, and calls doRegion() on the accepted ones;          *)
(* doRegion() compares modification times, composes the pixel grid with     *)
(* addChunk(), encodes it to <output>.tmp with writePNG(), copies the       *)
(* input's times onto the temp file and renames it onto the output.         *)
(*                                                                         *)
(* File names are sequences of one-character strings.  Modification times  *)
(* are records [sec, nsec].  The output directory is a function from path  *)
(* to file.                                                                *)
(*                                                                         *)
(* The environment fails the calls whose failure the program provides for: *)
(* stat of the input, the region visitor, fopen, the PNG structs, a write  *)
(* of the encoder (whether libpng sees it in fwrite or stdio meets it in   *)
(* the final flush of fclose), utimensat and rename.  unlink succeeds.     *)
(***************************************************************************)
EXTENDS Integers, Sequences, FiniteSets, TLC

(***************************************************************************)
(* Bounds of the model.                                                    *)
(***************************************************************************)
MaxSec == 1
MaxNsec == 1
MaxEntries == 2
MaxRuns == 2
MaxTouches == 1
MaxArgc == 4
RegionSide == 2
Palettes == 4

(***************************************************************************)
(* Program constants.                                                      *)
(***************************************************************************)
ChunkSide == 16
IntMax == 2147483647
IntMin == -2147483647 - 1

DIM == RegionSide * ChunkSide

(***************************************************************************)
(* Characters and C strings.                                               *)
(***************************************************************************)
NUL == "NUL"

Min(a, b) == IF a < b THEN a ELSE b

DecDigits == <<"0", "1", "2", "3", "4", "5", "6", "7", "8", "9">>

HexLetters == <<"a", "b", "c", "d", "e", "f">>

\* The character at 1-based position i of s, NUL past the end (the terminator).
At(s, i) == IF i >= 1 /\ i <= Len(s) THEN s[i] ELSE NUL

\* The value of character c as a digit of the given base, -1 when it is none.
DigitVal(c, base) ==
    LET dec == {k \in 1..10 : DecDigits[k] = c}
        hex == {k \in 1..6 : HexLetters[k] = c}
        v   == IF dec # {} THEN (CHOOSE k \in dec : TRUE) - 1
               ELSE IF hex # {} THEN (CHOOSE k \in hex : TRUE) + 9
               ELSE -1
    IN  IF v >= 0 /\ v < base THEN v ELSE -1

IsSpace(c) == c = " "

\* scanf skips white space before a numeric conversion.
RECURSIVE SkipSpace(_, _)
SkipSpace(s, i) == IF IsSpace(At(s, i)) THEN SkipSpace(s, i + 1) ELSE i

\* Accumulate the digits of the given base from position i on:
\* [val, next, n] with n the number of digits consumed.
RECURSIVE ScanDigits(_, _, _, _, _)
ScanDigits(s, i, base, acc, n) ==
    LET d == DigitVal(At(s, i), base)
    IN  IF d < 0 THEN [val |-> acc, next |-> i, n |-> n]
        ELSE ScanDigits(s, i + 1, base, acc * base + d, n + 1)

\* The %i conversion of scanf at position i: optional white space, optional
\* sign, then 0x/0X hexadecimal, 0 octal or decimal digits.
\* [ok, val, next].
ScanInt(s, i) ==
    LET j    == SkipSpace(s, i)
        neg  == At(s, j) = "-"
        k    == IF At(s, j) \in {"-", "+"} THEN j + 1 ELSE j
        hex  == /\ At(s, k) = "0"
                /\ At(s, k + 1) \in {"x", "X"}
                /\ DigitVal(At(s, k + 2), 16) >= 0
        base == IF hex THEN 16 ELSE IF At(s, k) = "0" THEN 8 ELSE 10
        from == IF hex THEN k + 2 ELSE k
        r    == ScanDigits(s, from, base, 0, 0)
    IN  [ok   |-> r.n > 0,
         val  |-> IF neg THEN 0 - r.val ELSE r.val,
         next |-> r.next]

\* std::sscanf(name, "r.%i.%i.mca", &x, &z): the number of conversions done
\* and the values converted.  The literal ".mca" after the second conversion
\* does not change the count.
Sscanf(name) ==
    IF At(name, 1) # "r" \/ At(name, 2) # "." THEN [count |-> 0, x |-> 0, z |-> 0]
    ELSE LET a == ScanInt(name, 3)
         IN  IF ~a.ok THEN [count |-> 0, x |-> 0, z |-> 0]
             ELSE IF At(name, a.next) # "." THEN [count |-> 1, x |-> a.val, z |-> 0]
             ELSE LET b == ScanInt(name, a.next + 1)
                  IN  IF ~b.ok THEN [count |-> 1, x |-> a.val, z |-> 0]
                      ELSE [count |-> 2, x |-> a.val, z |-> b.val]

\* The %i conversion of printf: decimal digits, a minus sign when negative.
RECURSIVE FormatNat(_)
FormatNat(n) ==
    IF n < 10 THEN <<DecDigits[n + 1]>>
    ELSE FormatNat(n \div 10) \o <<DecDigits[(n % 10) + 1]>>

FormatInt(v) == IF v < 0 THEN <<"-">> \o FormatNat(0 - v) ELSE FormatNat(v)

RegionName(x, z) ==
    <<"r", ".">> \o FormatInt(x) \o <<".">> \o FormatInt(z) \o <<".", "m", "c", "a">>

\* std::snprintf(buf, l, "r.%i.%i.mca", x, z): at most l-1 characters of the
\* rendering, then the terminator.
Snprintf(l, x, z) ==
    LET full == RegionName(x, z)
    IN  SubSeq(full, 1, Min(Len(full), l - 1)) \o <<NUL>>

\* std::memcmp(a, b, l) # 0 for a name a (with its terminator) and the buffer
\* snprintf filled: the first differing byte decides.
Memcmp(a, b, l) == \E i \in 1..l : At(a, i) # At(b, i)

\* Lines 163-168: the entry is handed on when sscanf converted two integers
\* and the re-rendered name compares equal over strlen+1 bytes.
AcceptEntry(name) ==
    LET r == Sscanf(name)
        l == Len(name) + 1
    IN  /\ r.count = 2
        /\ ~Memcmp(name \o <<NUL>>, Snprintf(l, r.x, r.z), l)

\* name.substr(0, name.length()-3) + "png"
OutputName(name) ==
    (IF Len(name) >= 3 THEN SubSeq(name, 1, Len(name) - 3) ELSE name) \o <<"p", "n", "g">>

TmpName(output) == output \o <<".", "t", "m", "p">>

(***************************************************************************)
(* Modification times and files.                                           *)
(***************************************************************************)
Times == [sec : 0..MaxSec, nsec : 0..MaxNsec]

T0 == [sec |-> 0, nsec |-> 0]

\* An input region file as stat() sees it: present with a modification
\* time, or not stat-able (a dangling link, a removed file).
NoInput == [present |-> FALSE, mtime |-> T0]

Inputs == {NoInput} \cup [present : {TRUE}, mtime : Times]

\* A file of the output directory.  src and gen name the regeneration that
\* wrote the bytes (gen 0: before the first run); complete is FALSE while the
\* encoded image is not fully in the file.
Absent == [present |-> FALSE, mtime |-> T0, src |-> <<>>, gen |-> 0, complete |-> FALSE]

OldImages == [present : {TRUE}, mtime : Times, src : {<<>>}, gen : {0}, complete : {TRUE}]

StaleTmps == [present : {TRUE}, mtime : {T0}, src : {<<>>}, gen : {0}, complete : {FALSE}]

(***************************************************************************)
(* The entries a region directory is drawn from.                           *)
(***************************************************************************)
RegionPool ==
    { <<"r", ".", "0", ".", "0", ".", "m", "c", "a">>,
      <<"r", ".", "-", "2", ".", "3", ".", "m", "c", "a">>,
      <<"r", ".", "1", ".", "0">>,
      <<"r", ".", "1", ".", "1">> }

JunkPool ==
    { <<"r", ".", "0", "1", ".", "2", ".", "m", "c", "a">>,
      <<".">> }

NamePool == RegionPool \cup JunkPool

PathsOf(d) == {OutputName(n) : n \in d} \cup {TmpName(OutputName(n)) : n \in d}

VARIABLES
    argc,       \* main's argument count
    pc,         \* the control point of main / doRegion
    exitCode,   \* main's return value, -1 while running
    run,        \* the number of the batch run in progress
    dir,        \* the names readdir returns for <data>/region
    unread,     \* the names readdir has not returned yet in this run
    indir,      \* stat of each input file
    outdir,     \* the files of the output directory, by path
    input,      \* doRegion's input (the entry name), <<>> outside a call
    output,     \* doRegion's output path
    instat,     \* instat.st_mtim
    bbox,       \* minX, maxX, minZ, maxZ
    touches,    \* how many times another process changed an input
    outcome,    \* per entry, how this run's processing of it ended
    prev,       \* per entry, how the previous run's processing of it ended
    before,     \* the destination file as it was when doRegion was entered
    warned,     \* the utimensat of the current regeneration failed
    steps,      \* the steps the current doRegion call has taken
    touched,    \* entries whose input changed since doRegion last stat'ed it
    everWarned, \* some utimensat has failed since the first run started
    image,      \* the pixel grid of one regeneration, image[row][column]
    palette,    \* which block colours the region's chunks hold
    visited,    \* the chunks visitChunks has called back for
    lastChunk   \* the chunk of the latest callback

vars == <<argc, pc, exitCode, run, dir, unread, indir, outdir, input, output,
          instat, bbox, touches, outcome, prev, before, warned, steps,
          touched, everWarned, image, palette, visited, lastChunk>>

fsVars == <<indir, outdir>>
mainVars == <<argc, exitCode, run, dir, unread, bbox>>
histVars == <<outcome, prev, touched, everWarned>>
gridVars == <<image, palette, visited, lastChunk>>

EmptyBox == [minX |-> IntMax, maxX |-> IntMin, minZ |-> IntMax, maxZ |-> IntMin]

\* The state main() starts from, for a region directory d, an argument
\* count in as, and input times and old output times in ts.  A temp file
\* left over by a killed run is there only when tmps says so.
Start(d, as, ts, tmps) ==
    /\ argc \in as
    /\ pc = "main"
    /\ exitCode = -1
    /\ run = 1
    /\ dir = d
    /\ unread = d
    /\ indir \in [d -> Inputs]
    /\ outdir \in [PathsOf(d) -> {Absent} \cup OldImages \cup StaleTmps]
    /\ \A n \in d :
          /\ indir[n].mtime \in ts
          /\ outdir[OutputName(n)] \in {Absent} \cup OldImages
          /\ outdir[OutputName(n)].mtime \in ts
          /\ outdir[TmpName(OutputName(n))] \in {Absent} \cup (IF tmps THEN StaleTmps ELSE {})
          /\ n \in JunkPool =>
                /\ indir[n] = [present |-> TRUE, mtime |-> T0]
                /\ outdir[OutputName(n)] = Absent
                /\ outdir[TmpName(OutputName(n))] = Absent
    /\ input = <<>>
    /\ output = <<>>
    /\ instat = T0
    /\ bbox = EmptyBox
    /\ touches = 0
    /\ outcome = [n \in d |-> "none"]
    /\ prev = [n \in d |-> "none"]
    /\ before = Absent
    /\ warned = FALSE
    /\ steps = <<>>
    /\ touched = {}
    /\ everWarned = FALSE
    /\ image = <<>>
    /\ palette = 0
    /\ visited = {}
    /\ lastChunk = <<>>

\* One region at a time: a directory of at most one entry, any command
\* line, every time, a leftover temp file or none.
Init ==
    \E d \in {d \in SUBSET NamePool : Cardinality(d) <= 1} :
       /\ Start(d, 1..MaxArgc, Times, TRUE)
       /\ argc < 3 => d = {}

\* The times a directory of several entries starts with: whole seconds.
CoarseTimes == {t \in Times : t.nsec = 0}

\* A batch: a directory of several region entries, the documented two
\* arguments, whole-second times and no leftover temp files.
InitBatch ==
    \E d \in {d \in SUBSET RegionPool : Cardinality(d) >= 2 /\ Cardinality(d) <= MaxEntries} :
       Start(d, {3}, CoarseTimes, FALSE)

(***************************************************************************)
(* doRegion, lines 100-116: the staleness decision.                        *)
(***************************************************************************)
\* A slip: the nanoseconds left out of the comparison.
NotNewerSecondsOnly(in, out) == in.sec <= out.sec

\* A slip: equal times taken as stale.
NotNewerStrict(in, out) ==
    \/ in.sec < out.sec
    \/ (in.sec = out.sec /\ in.nsec < out.nsec)

\* Lines 109-110: the input is not newer than the output.
NotNewer(in, out) ==
    \/ in.sec < out.sec
    \/ (in.sec = out.sec /\ in.nsec <= out.nsec)

\* Lines 103-114, on the stat results of the input and of the output.
Staleness(inp, outf) ==
    IF ~inp.present THEN "INPUT_MISSING"
    ELSE IF outf.present /\ NotNewer(inp.mtime, outf.mtime) THEN "UP_TO_DATE"
    ELSE "REGENERATE"

\* doRegion is about to return, with its locals still in scope.
Return(e, how) ==
    /\ pc' = "return"
    /\ outcome' = [outcome EXCEPT ![e] = how]

Tmp == TmpName(output)

(***************************************************************************)
(* main, lines 141-158.                                                    *)
(***************************************************************************)
MainStart ==
    /\ pc = "main"
    /\ \E opened \in BOOLEAN :
          /\ UNCHANGED argc
          /\ IF argc < 3 \/ ~opened
               THEN /\ exitCode' = 1
                    /\ pc' = "exit"
                    /\ UNCHANGED bbox
               ELSE /\ exitCode' = -1
                    /\ pc' = "readdir"
                    /\ bbox' = EmptyBox
    /\ unread' = dir
    /\ UNCHANGED <<gridVars, run, dir, fsVars, input, output, instat, touches, histVars,
                   before, warned, steps>>

\* Lines 170-178.
Widen(b, x, z) ==
    [minX |-> IF x < b.minX THEN x ELSE b.minX,
     maxX |-> IF x > b.maxX THEN x ELSE b.maxX,
     minZ |-> IF z < b.minZ THEN z ELSE b.minZ,
     maxZ |-> IF z > b.maxZ THEN z ELSE b.maxZ]

\* Lines 161-186: one turn of the readdir loop, up to the call of doRegion,
\* or the end of the scan.
ReadDir ==
    /\ pc = "readdir"
    /\ IF unread = {}
         THEN /\ exitCode' = 0
              /\ pc' = "exit"
              /\ UNCHANGED <<unread, bbox, input, output, before, warned, steps, outcome>>
         ELSE \E e \in unread :
                 /\ unread' = unread \ {e}
                 /\ UNCHANGED exitCode
                 /\ IF AcceptEntry(e)
                      THEN /\ bbox' = Widen(bbox, Sscanf(e).x, Sscanf(e).z)
                           /\ input' = e
                           /\ output' = OutputName(e)
                           /\ before' = outdir[OutputName(e)]
                           /\ warned' = FALSE
                           /\ steps' = <<>>
                           /\ pc' = "doRegion"
                           /\ UNCHANGED outcome
                      ELSE /\ outcome' = [outcome EXCEPT ![e] = "rejected"]
                           /\ UNCHANGED <<pc, bbox, input, output, before, warned, steps>>
    /\ UNCHANGED <<gridVars, argc, run, dir, fsVars, instat, touches, prev, touched, everWarned>>

(***************************************************************************)
(* doRegion, lines 100-139.                                                *)
(***************************************************************************)
\* A slip: a leftover temp file removed when the region is skipped.
CheckStaleCleansTmp ==
    /\ pc = "doRegion"
    /\ LET st == Staleness(indir[input], outdir[output])
       IN  /\ steps' = <<st>>
           /\ IF st = "INPUT_MISSING"
                THEN /\ Return(input, "missing")
                     /\ outdir' = [outdir EXCEPT ![Tmp] = Absent]
                     /\ UNCHANGED <<instat, touched>>
                ELSE /\ instat' = indir[input].mtime
                     /\ touched' = touched \ {input}
                     /\ IF st = "UP_TO_DATE"
                          THEN /\ Return(input, "uptodate")
                               /\ outdir' = [outdir EXCEPT ![Tmp] = Absent]
                          ELSE /\ pc' = "visit"
                               /\ UNCHANGED <<outcome, outdir>>
    /\ UNCHANGED <<gridVars, mainVars, indir, input, output, touches, prev, before,
                   warned, everWarned>>

\* Lines 103-118.
CheckStale ==
    /\ pc = "doRegion"
    /\ LET st == Staleness(indir[input], outdir[output])
       IN  /\ steps' = <<st>>
           /\ IF st = "INPUT_MISSING"
                THEN /\ Return(input, "missing")
                     /\ UNCHANGED <<instat, touched>>
                ELSE /\ instat' = indir[input].mtime
                     /\ touched' = touched \ {input}
                     /\ IF st = "UP_TO_DATE"
                          THEN Return(input, "uptodate")
                          ELSE /\ pc' = "visit"
                               /\ UNCHANGED outcome
    /\ UNCHANGED <<gridVars, mainVars, fsVars, input, output, touches, prev, before,
                   warned, everWarned>>

\* Line 122: Region::visitChunks either returns after its callbacks or throws.
VisitChunks ==
    /\ pc = "visit"
    /\ \E ok \in BOOLEAN : pc' = IF ok THEN "fopen" ELSE "catch"
    /\ steps' = Append(steps, "visit")
    /\ UNCHANGED <<gridVars, mainVars, fsVars, input, output, instat, touches, histVars,
                   before, warned>>

\* writePNG, lines 65-77: fopen(filename, "wb") creates or truncates the temp
\* file, then the PNG structs are created; each of the three may fail.
WriteOpen ==
    /\ pc = "fopen"
    /\ steps' = Append(steps, "fopen")
    /\ \/ /\ pc' = "catch"
          /\ UNCHANGED outdir
       \/ \E now \in Times, png \in BOOLEAN :
             /\ outdir' = [outdir EXCEPT ![Tmp] =
                              [present |-> TRUE, mtime |-> now, src |-> input,
                               gen |-> run, complete |-> FALSE]]
             /\ pc' = IF png THEN "encode" ELSE "catch"
    /\ UNCHANGED <<gridVars, mainVars, indir, input, output, instat, touches, histVars,
                   before, warned>>

\* writePNG, lines 79-97: png_write_png writes the rows through stdio; a write
\* error libpng sees comes back through setjmp and is thrown.  The last
\* buffered bytes are written by fclose (line 97), whose result is not read.
WriteEncode ==
    /\ pc = "encode"
    /\ steps' = Append(steps, "encode")
    /\ \/ /\ pc' = "catch"
          /\ UNCHANGED outdir
       \/ /\ pc' = "utime"
          /\ outdir' = [outdir EXCEPT ![Tmp].complete = TRUE]
       \/ /\ pc' = "utime"
          /\ UNCHANGED outdir
    /\ UNCHANGED <<gridVars, mainVars, indir, input, output, instat, touches, histVars,
                   before, warned>>

\* A slip: the times are never copied onto the temp file.
UtimensatSkipped ==
    /\ pc = "utime"
    /\ steps' = Append(steps, "utime")
    /\ pc' = "rename"
    /\ UNCHANGED <<gridVars, mainVars, fsVars, input, output, instat, touches, histVars,
                   before, warned>>

\* A slip: a failed utimensat treated as an error of the regeneration.
UtimensatFatal ==
    /\ pc = "utime"
    /\ steps' = Append(steps, "utime")
    /\ \E ok \in BOOLEAN :
          IF ok
            THEN /\ outdir' = [outdir EXCEPT ![Tmp].mtime = instat]
                 /\ pc' = "rename"
                 /\ UNCHANGED <<warned, everWarned>>
            ELSE /\ warned' = TRUE
                 /\ everWarned' = TRUE
                 /\ pc' = "catch"
                 /\ UNCHANGED outdir
    /\ UNCHANGED <<gridVars, mainVars, indir, input, output, instat, touches, outcome, prev,
                   touched, before>>

\* A slip: the times set on the destination path.
UtimensatOnOutput ==
    /\ pc = "utime"
    /\ steps' = Append(steps, "utime")
    /\ pc' = "rename"
    /\ \E ok \in BOOLEAN :
          IF ok /\ outdir[output].present
            THEN /\ outdir' = [outdir EXCEPT ![output].mtime = instat]
                 /\ UNCHANGED <<warned, everWarned>>
            ELSE /\ warned' = TRUE
                 /\ everWarned' = TRUE
                 /\ UNCHANGED outdir
    /\ UNCHANGED <<gridVars, mainVars, indir, input, output, instat, touches, outcome, prev,
                   touched, before>>

\* A slip: the input's time read again when it is copied, not the time the
\* staleness check read.
UtimensatRestats ==
    /\ pc = "utime"
    /\ steps' = Append(steps, "utime")
    /\ pc' = "rename"
    /\ \E ok \in BOOLEAN :
          IF ok
            THEN /\ outdir' = [outdir EXCEPT ![Tmp].mtime = indir[input].mtime]
                 /\ UNCHANGED <<warned, everWarned>>
            ELSE /\ warned' = TRUE
                 /\ everWarned' = TRUE
                 /\ UNCHANGED outdir
    /\ UNCHANGED <<gridVars, mainVars, indir, input, output, instat, touches, outcome, prev,
                   touched, before>>

\* Lines 126-128.
Utimensat ==
    /\ pc = "utime"
    /\ steps' = Append(steps, "utime")
    /\ pc' = "rename"
    /\ \E ok \in BOOLEAN :
          IF ok
            THEN /\ outdir' = [outdir EXCEPT ![Tmp].mtime = instat]
                 /\ UNCHANGED <<warned, everWarned>>
            ELSE /\ warned' = TRUE
                 /\ everWarned' = TRUE
                 /\ UNCHANGED outdir
    /\ UNCHANGED <<gridVars, mainVars, indir, input, output, instat, touches, outcome, prev,
                   touched, before>>

\* A slip: the temp file is not removed when the rename fails.
RenameKeepsTmp ==
    /\ pc = "rename"
    /\ \E ok \in BOOLEAN :
          IF ok
            THEN /\ outdir' = [outdir EXCEPT ![output] = outdir[Tmp], ![Tmp] = Absent]
                 /\ steps' = Append(steps, "rename")
                 /\ Return(input, "published")
            ELSE /\ UNCHANGED outdir
                 /\ steps' = Append(steps, "rename_failed")
                 /\ Return(input, "failed")
    /\ UNCHANGED <<gridVars, mainVars, indir, input, output, instat, touches, prev, touched,
                   everWarned, before, warned>>

\* Lines 130-133.
Rename ==
    /\ pc = "rename"
    /\ \E ok \in BOOLEAN :
          IF ok
            THEN /\ outdir' = [outdir EXCEPT ![output] = outdir[Tmp], ![Tmp] = Absent]
                 /\ steps' = Append(steps, "rename")
                 /\ Return(input, "published")
            ELSE /\ outdir' = [outdir EXCEPT ![Tmp] = Absent]
                 /\ steps' = Append(steps, "rename_failed")
                 /\ Return(input, "failed")
    /\ UNCHANGED <<gridVars, mainVars, indir, input, output, instat, touches, prev, touched,
                   everWarned, before, warned>>

\* A slip: the exception is not caught in doRegion and ends main.
CatchAborts ==
    /\ pc = "catch"
    /\ steps' = Append(steps, "catch")
    /\ outcome' = [outcome EXCEPT ![input] = "failed"]
    /\ pc' = "exit"
    /\ exitCode' = 1
    /\ UNCHANGED <<gridVars, argc, run, dir, unread, bbox, fsVars, input, output, instat,
                   touches, prev, touched, everWarned, before, warned>>

\* A slip: the handler removes the output instead of the temp file.
CatchUnlinksOutput ==
    /\ pc = "catch"
    /\ outdir' = [outdir EXCEPT ![output] = Absent]
    /\ steps' = Append(steps, "catch")
    /\ Return(input, "failed")
    /\ UNCHANGED <<gridVars, mainVars, indir, input, output, instat, touches, prev, touched,
                   everWarned, before, warned>>

\* A slip: a failed regeneration started again in the same run.
CatchRetries ==
    /\ pc = "catch"
    /\ outdir' = [outdir EXCEPT ![Tmp] = Absent]
    /\ steps' = <<>>
    /\ pc' = "doRegion"
    /\ UNCHANGED <<gridVars, mainVars, indir, input, output, instat, touches, histVars,
                   before, warned>>

\* A slip: the handler cleans up and the regeneration goes on to the rename.
CatchFallsThrough ==
    /\ pc = "catch"
    /\ outdir' = [outdir EXCEPT ![Tmp] = Absent]
    /\ steps' = Append(steps, "catch")
    /\ pc' = "rename"
    /\ UNCHANGED <<gridVars, mainVars, indir, input, output, instat, touches, histVars,
                   before, warned>>

\* Lines 135-138.
Catch ==
    /\ pc = "catch"
    /\ outdir' = [outdir EXCEPT ![Tmp] = Absent]
    /\ steps' = Append(steps, "catch")
    /\ Return(input, "failed")
    /\ UNCHANGED <<gridVars, mainVars, indir, input, output, instat, touches, prev, touched,
                   everWarned, before, warned>>

\* doRegion returns to the readdir loop: its locals go out of scope.
Leave ==
    /\ pc = "return"
    /\ pc' = "readdir"
    /\ input' = <<>>
    /\ output' = <<>>
    /\ instat' = T0
    /\ before' = Absent
    /\ warned' = FALSE
    /\ steps' = <<>>
    /\ UNCHANGED <<gridVars, mainVars, fsVars, touches, histVars>>

(***************************************************************************)
(* The environment: another process rewrites an input region file, and the *)
(* operator starts the batch again.                                        *)
(***************************************************************************)
Later(t, u) == u.sec < t.sec \/ (u.sec = t.sec /\ u.nsec < t.nsec)

\* doRegion reads an input's time only in CheckStale, once per entry and
\* run.  A change to the input being regenerated is taken right after that
\* read ("visit"); a change to any input between its read in one run and its
\* read in the next is taken between the runs ("exit").  A change made before
\* the first read is a different starting time.
Touch ==
    /\ touches < MaxTouches
    /\ \/ pc = "visit"
       \/ pc = "exit" /\ exitCode = 0 /\ run < MaxRuns
    /\ \E e \in dir \cap RegionPool, t \in Times :
          /\ pc = "visit" => e = input
          /\ indir[e].present
          /\ Later(t, indir[e].mtime)
          /\ indir' = [indir EXCEPT ![e].mtime = t]
          /\ touched' = touched \cup {e}
    /\ touches' = touches + 1
    /\ UNCHANGED <<gridVars, mainVars, pc, outdir, input, output, instat, outcome, prev,
                   everWarned, before, warned, steps>>

NextRun ==
    /\ pc = "exit"
    /\ exitCode = 0
    /\ run < MaxRuns
    /\ run' = run + 1
    /\ pc' = "main"
    /\ exitCode' = -1
    /\ prev' = outcome
    /\ outcome' = [n \in dir |-> "none"]
    /\ UNCHANGED <<gridVars, argc, dir, unread, bbox, fsVars, input, output, instat, touches,
                   touched, everWarned, before, warned, steps>>

(***************************************************************************)
(* The tile compositor, lines 55-62.  A grid cell is the four bytes of its *)
(* uint32_t in memory order, the order writePNG hands them to the codec.   *)
(***************************************************************************)
Side == 0..(ChunkSide - 1)

Chunks == (0..(RegionSide - 1)) \X (0..(RegionSide - 1))

\* getColor() of the block at column (x, z) of the top layer of chunk (X, Z):
\* a 32-bit value that tells the palette, the chunk and the column.
Color(p, X, Z, x, z) == p * 16777216 + X * 1048576 + Z * 65536 + x * 256 + z

\* chunk->getTopLayer(): layer.blocks[x][z].
TopLayer(p, X, Z) == [x \in Side |-> [z \in Side |-> Color(p, X, Z, x, z)]]

\* htonl(v) as stored: the most significant byte first.
Htonl(v) == <<(v \div 16777216) % 256, (v \div 65536) % 256, (v \div 256) % 256, v % 256>>

ZeroCell == <<0, 0, 0, 0>>

\* Line 121: uint32_t image[DIM][DIM] = {}.
ZeroImage == [r \in 0..(DIM - 1) |-> [c \in 0..(DIM - 1) |-> ZeroCell]]

\* A slip: the row and the column of the destination exchanged.
addChunkTransposed(img, X, Z, layer) ==
    [r \in 0..(DIM - 1) |-> [c \in 0..(DIM - 1) |->
        IF /\ r \div ChunkSide = X
           /\ c \div ChunkSide = Z
          THEN Htonl(layer[r % ChunkSide][c % ChunkSide])
          ELSE img[r][c]]]

\* A slip: the grid zeroed again at every callback.
addChunkClearing(img, X, Z, layer) ==
    [r \in 0..(DIM - 1) |-> [c \in 0..(DIM - 1) |->
        IF /\ r \div ChunkSide = Z
           /\ c \div ChunkSide = X
          THEN Htonl(layer[c % ChunkSide][r % ChunkSide])
          ELSE ZeroCell]]

\* Lines 58-61: image[Z*SIZE+z][X*SIZE+x] = htonl(layer.blocks[x][z].getColor())
\* for every x and z below Chunk::SIZE.
addChunk(img, X, Z, layer) ==
    [r \in 0..(DIM - 1) |-> [c \in 0..(DIM - 1) |->
        IF /\ r \div ChunkSide = Z
           /\ c \div ChunkSide = X
          THEN Htonl(layer[c % ChunkSide][r % ChunkSide])
          ELSE img[r][c]]]

\* The state a regeneration's visitChunks starts from: the zeroed grid.
InitGrid ==
    /\ argc = 3
    /\ pc = "visit"
    /\ exitCode = -1
    /\ run = 1
    /\ dir = {}
    /\ unread = {}
    /\ indir = <<>>
    /\ outdir = <<>>
    /\ input = <<>>
    /\ output = <<>>
    /\ instat = T0
    /\ bbox = EmptyBox
    /\ touches = 0
    /\ outcome = <<>>
    /\ prev = <<>>
    /\ before = Absent
    /\ warned = FALSE
    /\ steps = <<>>
    /\ touched = {}
    /\ everWarned = FALSE
    /\ image = ZeroImage
    /\ palette \in 1..Palettes
    /\ visited = {}
    /\ lastChunk = <<>>

\* Line 122: one callback of visitChunks, for a chunk not called back before.
ChunkCallback ==
    /\ pc = "visit"
    /\ \E ch \in Chunks \ visited :
          /\ image' = addChunk(image, ch[1], ch[2], TopLayer(palette, ch[1], ch[2]))
          /\ visited' = visited \cup {ch}
          /\ lastChunk' = ch
    /\ UNCHANGED <<mainVars, fsVars, pc, input, output, instat, touches, histVars,
                   before, warned, steps, palette>>

NextGrid == ChunkCallback

SpecGrid == InitGrid /\ [][NextGrid]_vars

Next ==
    \/ MainStart
    \/ ReadDir
    \/ CheckStale
    \/ VisitChunks
    \/ WriteOpen
    \/ WriteEncode
    \/ Utimensat
    \/ Rename
    \/ Catch
    \/ Leave
    \/ Touch
    \/ NextRun

Spec == Init /\ [][Next]_vars

SpecBatch == InitBatch /\ [][Next]_vars
(***************************************************************************)
(* The properties checked.                                                 *)
(***************************************************************************)
RegenPcs == {"visit", "fopen", "encode", "utime", "rename", "catch"}

Last(q) == q[Len(q)]

Returned(how) == pc = "return" /\ outcome[input] = how

\* C1: the file at a region's destination path is never a partially
\* written or truncated image: whenever it exists it holds a complete
\* encoded image.
C1_DestinationNeverPartial ==
    \A n \in dir :
       outdir[OutputName(n)].present => outdir[OutputName(n)].complete

\* The order of two times, by their distance in nanoseconds from time zero.
Nanos(t) == t.sec * (MaxNsec + 1) + t.nsec

\* C2: the staleness decision is INPUT_MISSING when the input cannot be
\* stat'ed, else UP_TO_DATE exactly when the output exists and its time is
\* not before the input's (seconds, then nanoseconds), else REGENERATE.
C2_StalenessDecision ==
    (pc \in RegenPcs \cup {"return"}) =>
        LET fresh == before.present /\ Nanos(before.mtime) >= Nanos(instat)
        IN  /\ steps[1] = "INPUT_MISSING" <=> ~indir[input].present
            /\ indir[input].present => (steps[1] = "UP_TO_DATE" <=> fresh)
            /\ indir[input].present => (steps[1] = "REGENERATE" <=> ~fresh)

\* C2 witness: an output whose time equals the input's was found up to date.
C2_Witness ==
    /\ Returned("uptodate")
    /\ before.mtime = instat
    /\ instat.nsec > 0

C4_TimestampPropagated ==
    Returned("published") => outdir[output].mtime = instat

\* C4 amended: after a successful regeneration whose utimensat succeeded,
\* the destination's time equals the input's time read by the staleness
\* check.
C4_TimestampPropagatedWhenSet ==
    (Returned("published") /\ ~warned) => outdir[output].mtime = instat

\* C4 witness: an older output was replaced and carries the input's time.
C4_Witness ==
    /\ Returned("published")
    /\ ~warned
    /\ before.present
    /\ outdir[output].mtime = instat
    /\ outdir[output].mtime # before.mtime

\* The canonical renderings "r.<X>.<Z>.mca" of the coordinates in reach.
CanonicalNames == {RegionName(x, z) : x \in -9..9, z \in -9..9}

\* C5: an entry is accepted (handed to doRegion) if and only if its name is
\* the full canonical rendering r.<X>.<Z>.mca of two integers.
C5_AcceptedIffCanonical ==
    /\ input # <<>> => input \in CanonicalNames
    /\ \A n \in dir :
          outcome[n] # "none" => (outcome[n] # "rejected" <=> n \in CanonicalNames)

\* C6: a failure while one entry is processed does not end the run: the run
\* ends only when readdir has returned every entry, with exit code 0, and
\* every entry has then been processed.
C6_FailureIsolation ==
    /\ (\E e \in dir : outcome[e] \in {"missing", "failed"}) => exitCode \in {-1, 0}
    /\ (pc = "exit" /\ exitCode = 0) =>
          /\ unread = {}
          /\ \A e \in dir : outcome[e] # "none"

\* C6 witness: after one entry failed, another entry of the same run was
\* regenerated and published.
C6_Witness ==
    /\ Returned("published")
    /\ outdir[output].complete
    /\ \E e \in dir \ {input} : outcome[e] = "failed"

\* C7: while a regeneration is under way and when it has failed, the
\* destination is exactly as it was before the attempt.
C7_FailureLeavesDestination ==
    /\ pc \in RegenPcs => outdir[output] = before
    /\ Returned("failed") => outdir[output] = before

\* C7 witness: a regeneration failed after its temp file was written, and
\* the previous output is still there.
C7_Witness ==
    /\ Returned("failed")
    /\ before.present
    /\ Len(steps) >= 4
    /\ outdir[output] = before

C9_UtimeFailureNotFatal ==
    warned =>
        /\ pc \in {"rename", "return"}
        /\ pc = "return" =>
              /\ Last(steps) \in {"rename", "rename_failed"}
              /\ Last(steps) = "rename" =>
                    /\ outcome[input] = "published"
                    /\ outdir[output].present
                    /\ outdir[output].src = input
                    /\ outdir[output].gen = run

\* C9 witness: a region was published although its utimensat failed.
C9_Witness ==
    /\ warned
    /\ Returned("published")

\* C10: for every visited chunk (X, Z) and every column (x, z), the grid
\* cell at row Z*chunkSide+z, column X*chunkSide+x holds the colour of that
\* column; chunk (1, 0), column (3, 5) lands at row 5, column 19.
C10_ChunkPlacement ==
    /\ \A ch \in visited : \A x \in Side, z \in Side :
          image[ch[2] * ChunkSide + z][ch[1] * ChunkSide + x]
             = <<palette, ch[1] * 16 + ch[2], x, z>>
    /\ <<1, 0>> \in visited => image[5][19] = <<palette, 16, 3, 5>>

\* C10 witness: chunk (1, 0) was composed into the grid.
C10_Witness ==
    /\ lastChunk = <<1, 0>>
    /\ image[5][19] = <<palette, 16, 3, 5>>
    /\ image[19][5] = ZeroCell

\* The chunk whose block holds the grid cell at row r, column c.
ChunkOf(r, c) == <<c \div ChunkSide, r \div ChunkSide>>

\* C11: a callback for chunk (X, Z) changes only cells of rows Z*chunkSide..
\* and columns X*chunkSide.. of that chunk's block, a block no earlier
\* callback wrote, and leaves every other cell as it was; and every cell of
\* a chunk never visited holds the zero value the grid started with.
C11_AddChunkFrame ==
    /\ [](\A r \in 0..(DIM - 1), c \in 0..(DIM - 1) :
            ChunkOf(r, c) \notin visited => image[r][c] = ZeroCell)
    /\ [][\A r \in 0..(DIM - 1), c \in 0..(DIM - 1) :
            image'[r][c] # image[r][c] =>
               /\ ChunkOf(r, c) = lastChunk'
               /\ ChunkOf(r, c) \notin visited]_vars

\* C11 witness: after the callbacks for chunks (0, 0) and (1, 1), the cells
\* of chunk (0, 0) are as its callback left them and those of chunk (1, 0),
\* never visited, are zero.
C11_Witness ==
    /\ visited = {<<0, 0>>, <<1, 1>>}
    /\ lastChunk = <<1, 1>>
    /\ image[3][5] = <<palette, 0, 5, 3>>
    /\ image[16][16] = <<palette, 17, 0, 0>>
    /\ image[0][16] = ZeroCell

\* The least and the greatest of a non-empty set of integers.
Least(S) == CHOOSE m \in S : \A k \in S : m <= k
Greatest(S) == CHOOSE m \in S : \A k \in S : m >= k

\* The bounding box of the coordinates parsed from the names in S; the box
\* main starts from when S is empty.
BoxOf(S) ==
    IF S = {} THEN EmptyBox
    ELSE [minX |-> Least({Sscanf(n).x : n \in S}),
          maxX |-> Greatest({Sscanf(n).x : n \in S}),
          minZ |-> Least({Sscanf(n).z : n \in S}),
          maxZ |-> Greatest({Sscanf(n).z : n \in S})]

\* C12: at the end of the directory scan, (minX, maxX, minZ, maxZ) are the
\* least and greatest X and Z over exactly the valid region filenames
\* r.<X>.<Z>.mca of the directory, whatever the order of the scan and
\* whatever the outcome of each region.
C12_BoundingBox ==
    (pc = "exit" /\ exitCode = 0) => bbox = BoxOf(dir \cap CanonicalNames)

\* The box over the entries the code accepts, valid filenames or not.
BoxCoversAccepted ==
    (pc = "exit" /\ exitCode = 0) => bbox = BoxOf({n \in dir : AcceptEntry(n)})

\* C13: the program exits with code 1 when the argument count is not the
\* two arguments of the command line (argc = 3) or the region directory
\* cannot be opened, and with code 0 otherwise; exit code 1 is given only
\* before any entry is processed, so no region's outcome changes it.
C13_ExitCode ==
    pc = "exit" =>
        /\ exitCode \in {0, 1}
        /\ argc # 3 => exitCode = 1
        /\ exitCode = 1 => \A e \in dir : outcome[e] = "none"

\* The exit code with "too few arguments" in the place of "not two".
ExitCodeTooFew ==
    pc = "exit" =>
        /\ exitCode \in {0, 1}
        /\ argc < 3 => exitCode = 1
        /\ exitCode = 1 => \A e \in dir : outcome[e] = "none"
        /\ (\E e \in dir : outcome[e] # "none") => exitCode = 0

\* The output name "r.<X>.<Z>.png" of the coordinates (x, z).
PngName(x, z) ==
    <<"r", ".">> \o FormatInt(x) \o <<".">> \o FormatInt(z) \o <<".", "p", "n", "g">>

\* The output name of the coordinates parsed from the entry name n.
PngOf(n) == PngName(Sscanf(n).x, Sscanf(n).z)

\* C14: the destination handed to doRegion for an accepted entry with
\* coordinates (X, Z) is r.<X>.<Z>.png, and outside a regeneration every
\* file of the output directory that a run wrote lies at the r.<X>.<Z>.png
\* of the accepted entry it was generated from.
C14_DestinationName ==
    /\ input # <<>> => output = PngOf(input)
    /\ pc \notin RegenPcs =>
          \A p \in DOMAIN outdir :
             (outdir[p].present /\ outdir[p].gen >= 1) =>
                /\ outdir[p].src \in dir
                /\ AcceptEntry(outdir[p].src)
                /\ p = PngOf(outdir[p].src)

\* The same, for the entries whose names are valid region filenames.
DestinationOfCanonical ==
    /\ input \in CanonicalNames => output = PngOf(input)
    /\ pc \notin RegenPcs =>
          \A p \in DOMAIN outdir :
             (outdir[p].present /\ outdir[p].gen >= 1 /\ outdir[p].src \in CanonicalNames) =>
                /\ outdir[p].src \in dir
                /\ p = PngOf(outdir[p].src)

\* C15: when a region's regeneration failed in the previous run and no
\* input has changed since, this run's staleness check of the region
\* returns REGENERATE: the region is regenerated again and is not reported
\* up to date.
C15_FailedIsRetried ==
    (/\ run >= 2
     /\ touches = 0
     /\ pc \in RegenPcs \cup {"return"}
     /\ prev[input] = "failed") =>
        /\ steps[1] = "REGENERATE"
        /\ outcome[input] # "uptodate"

\* The same, for the entries whose names are valid region filenames.
FailedCanonicalIsRetried ==
    (/\ run >= 2
     /\ touches = 0
     /\ pc \in RegenPcs \cup {"return"}
     /\ input \in CanonicalNames
     /\ prev[input] = "failed") =>
        /\ steps[1] = "REGENERATE"
        /\ outcome[input] # "uptodate"

\* The state of entry e in the per-region state machine.  An entry whose
\* input cannot be stat'ed is skipped without a regeneration.
RegionState(e) ==
    CASE outcome[e] = "rejected" -> "REJECTED"
      [] outcome[e] \in {"missing", "uptodate"} -> "SKIPPED"
      [] outcome[e] = "published" -> "PUBLISHED"
      [] outcome[e] = "failed" -> "FAILED"
      [] OTHER -> IF input # e THEN "UNREAD"
                  ELSE IF pc = "doRegion" THEN "DISCOVERED"
                  ELSE "REGENERATING"

TerminalStates == {"REJECTED", "SKIPPED", "PUBLISHED", "FAILED"}

\* The moves of the state machine within one run.
RegionMoves ==
    {<<"UNREAD", "REJECTED">>, <<"UNREAD", "DISCOVERED">>,
     <<"DISCOVERED", "SKIPPED">>, <<"DISCOVERED", "REGENERATING">>,
     <<"REGENERATING", "PUBLISHED">>, <<"REGENERATING", "FAILED">>}

\* C16: within one run every entry moves only along DISCOVERED -> SKIPPED,
\* DISCOVERED -> REGENERATING -> PUBLISHED or DISCOVERED -> REGENERATING ->
\* FAILED: it is discovered once, a terminal state is never left, PUBLISHED
\* and FAILED are entered only from REGENERATING and REGENERATING only from
\* DISCOVERED; and when the run ends every entry is in a terminal state.
C16_RegionStateMachine ==
    /\ []((pc = "exit" /\ exitCode = 0) =>
             \A e \in dir : RegionState(e) \in TerminalStates)
    /\ [][run' = run =>
             \A e \in dir :
                \/ RegionState(e)' = RegionState(e)
                \/ <<RegionState(e), RegionState(e)'>> \in RegionMoves]_vars

\* C16 witness: a run has ended in which one entry was skipped as up to date
\* and another was regenerated and failed.
C16_Witness ==
    /\ pc = "exit"
    /\ exitCode = 0
    /\ \E e \in dir : outcome[e] = "uptodate"
    /\ \E e \in dir : outcome[e] = "failed"

\* The steps of a regeneration up to the rename, in the order of the code.
StepsToRename == <<"REGENERATE", "visit", "fopen", "encode", "utime">>

\* What a step of a regeneration may do to the destination and to the temp
\* file: the destination changes only in the rename, to the temp file; the
\* setting of the times changes at most the time of the temp file.
RegenerationWrites ==
    pc \in RegenPcs =>
        /\ outdir'[output] # outdir[output] =>
              /\ pc = "rename"
              /\ steps = StepsToRename
              /\ outdir'[output] = outdir[Tmp]
        /\ pc = "utime" =>
              /\ outdir'[output] = outdir[output]
              /\ outdir'[Tmp] \in {outdir[Tmp], [outdir[Tmp] EXCEPT !.mtime = instat]}

\* C17: a regeneration takes its steps in the fixed order visit, encode to
\* the temp path, set the times, rename; the rename is attempted only after
\* all of them, never after the failure of one (the catch handler); and the
\* times are set on the temp path while the destination is left alone: the
\* destination changes only in the rename.
C17_StepOrder ==
    /\ []((pc \in RegenPcs \cup {"return"} /\ steps[1] = "REGENERATE") =>
             /\ \/ \E k \in 1..5 : steps = SubSeq(StepsToRename, 1, k)
                \/ steps = Append(StepsToRename, "rename")
                \/ steps = Append(StepsToRename, "rename_failed")
                \/ \E k \in 2..4 : steps = Append(SubSeq(StepsToRename, 1, k), "catch")
             /\ pc = "rename" => steps = StepsToRename)
    /\ [][RegenerationWrites]_vars

\* C17 witness: a regeneration went through every step in order and the
\* image it wrote is at the destination, with no temp file left.
C17_Witness ==
    /\ pc = "return"
    /\ steps = Append(StepsToRename, "rename")
    /\ outdir[output].gen = run
    /\ outdir[output].src = input
    /\ ~outdir[Tmp].present

\* C18: when the staleness check yields INPUT_MISSING or UP_TO_DATE,
\* doRegion returns in that step with every file as it was: no temp file
\* is created, written or removed, the destination is as it was found, and
\* the call has taken no other step (no visit, no encode).
C18_SkipLeavesFiles ==
    /\ []((Returned("missing") \/ Returned("uptodate")) =>
             /\ steps \in {<<"INPUT_MISSING">>, <<"UP_TO_DATE">>}
             /\ outdir[output] = before)
    /\ [][(pc = "doRegion" /\ pc' = "return") => fsVars' = fsVars]_vars

\* C18 witness: a region was found up to date, and a temp file left over by
\* an earlier, killed run is still there.
C18_Witness ==
    /\ Returned("uptodate")
    /\ steps = <<"UP_TO_DATE">>
    /\ outdir[Tmp].present
    /\ outdir[output] = before

\* C19: the destination and the temp path of the entry doRegion is called
\* for differ from those of every other accepted entry of the directory,
\* and a file a regeneration of that entry wrote is never found generated
\* from another entry.
C19_DistinctPaths ==
    input # <<>> =>
        /\ \A n \in dir \ {input} :
              AcceptEntry(n) =>
                 /\ OutputName(n) # output
                 /\ TmpName(OutputName(n)) # Tmp
        /\ \A p \in {output, Tmp} :
              (outdir[p].present /\ outdir[p].gen >= 1) => outdir[p].src = input

\* The same, for the entries whose names are valid region filenames.
DistinctCanonicalPaths ==
    input \in CanonicalNames =>
        /\ \A n \in (dir \ {input}) \cap CanonicalNames :
              /\ OutputName(n) # output
              /\ TmpName(OutputName(n)) # Tmp
              /\ outdir[OutputName(n)].gen >= 1 => outdir[OutputName(n)].src = n
        /\ \A p \in {output, Tmp} :
              (outdir[p].present /\ outdir[p].gen >= 1) => outdir[p].src = input

\* The staleness check of the next run is about to be made for a region
\* that the previous run published and whose input has changed since the
\* previous run read its time.
ChangedSincePublished ==
    /\ pc = "doRegion"
    /\ run >= 2
    /\ prev[input] = "published"
    /\ input \in touched

\* C20 as claimed: when an input changes after doRegion has read its time
\* and the regeneration is published nevertheless, the staleness check of
\* the next run returns REGENERATE for that region.
C20_ChangeNotMasked ==
    [][ChangedSincePublished => steps'[1] = "REGENERATE"]_vars

\* C20 amended: the same, when no utimensat has failed and the image that
\* regeneration published is still the file at the destination.
C20_ChangeNotMaskedWhenSet ==
    [][(/\ ChangedSincePublished
        /\ ~everWarned
        /\ outdir[output].src = input) => steps'[1] = "REGENERATE"]_vars

\* C20 witness: the input changed while its region was regenerated, the
\* image was published with the time read before the change, and the next
\* run regenerates the region.
C20_Witness ==
    /\ run = 2
    /\ pc = "visit"
    /\ steps = <<"REGENERATE">>
    /\ prev[input] = "published"
    /\ touches = 1
    /\ ~everWarned
    /\ before.present
    /\ before.src = input
    /\ before.gen = 1
    /\ Nanos(before.mtime) < Nanos(instat)

=============================================================================
